---- MODULE Spec2Model ----
(***************************************************************************)
(* Partner onboarding and admin verification workflow of the marketplace   *)
(* backend: the Partner model (models/Partner.js), the partner-facing      *)
(* onboarding routes (routes/partnerOnboarding.js, routes/partners.js)     *)
(* and the admin review routes (routes/admin.js), with the notification    *)
(* service (utils/notificationService.js), the admin setup routes          *)
(* (routes/adminSetup.js) and the login lockout (routes/auth.js).          *)
(***************************************************************************)
EXTENDS Integers, Sequences, FiniteSets, TLC

(***************************************************************************)
(* Bounds of the model.                                                    *)
(***************************************************************************)
MaxDocs == 2
MaxServices == 1
MaxPortfolio == 1
MaxCallbacks == 2
MaxInbox == 2
\* the clock stops after MaxNow units of five minutes
MaxNow == 13
\* failed logins counted per address
MaxFailures == 6

(***************************************************************************)
(* Identities.  Partner account 1 is registered with a partner profile     *)
(* (routes/auth.js creates it at registration); account 2 is a partner     *)
(* identity with no profile record, and an id no Partner document has.     *)
(***************************************************************************)
PartnerIds == {1, 2}
Registered == {1}
AdminIds == {"admin1"}

NoProfile == [exists |-> FALSE]
NoDate == 0
NoUser == "null"
NoText == "null"
NoReason == ""

\* the instants new Date() returns in the model
Times == {1, 2}
DocIds == 1..MaxDocs
ServiceIds == 1..MaxServices

Max(a, b) == IF a >= b THEN a ELSE b
Min(a, b) == IF a <= b THEN a ELSE b

SeqToSet(s) == {s[i] : i \in DOMAIN s}

RECURSIVE SelectSeqBy(_, _)
\* Array.prototype.filter on a sequence, keeping the elements in `keep'
SelectSeqBy(s, keep) ==
    IF s = <<>> THEN <<>>
    ELSE IF Head(s) \in keep THEN <<Head(s)>> \o SelectSeqBy(Tail(s), keep)
         ELSE SelectSeqBy(Tail(s), keep)

VARIABLES partners, subscribers, inbox,
          inFlight, adminRecords, userTypes, failedAttempts, now

vars == <<partners, subscribers, inbox,
          inFlight, adminRecords, userTypes, failedAttempts, now>>
\* the Admin and User collections of the admin setup routes
setupVars == <<adminRecords, userTypes>>
\* the failed-login store of the auth routes and the clock
loginVars == <<failedAttempts, now>>

(***************************************************************************)
(* Partner schema (models/Partner.js).  A stored document keeps the fields *)
(* the review workflow reads and writes.                                   *)
(***************************************************************************)
NewDocument(id, doc) ==
    [id |-> id, docName |-> doc.docName,
     status |-> "pending", rejectionReason |-> NoText, reviewNotes |-> NoText,
     reviewedAt |-> NoDate, reviewedBy |-> NoUser]

NewPartner ==
    [exists |-> TRUE,
     companyName |-> "", partnerType |-> "", experienceYears |-> 0,
     specializations |-> <<>>,
     services |-> <<>>, partnerLocations |-> <<>>, servingLocations |-> <<>>,
     portfolio |-> <<>>, documents |-> <<>>,
     onboardingStatus |-> "incomplete", onboardingStep |-> 1,
     verified |-> FALSE,
     verificationDate |-> NoDate, verificationNotes |-> NoText, verifiedBy |-> NoUser,
     rejectionDate |-> NoDate, rejectionReason |-> NoText,
     rejectionNotes |-> NoText, rejectedBy |-> NoUser]

\* faulty variant of onboardingProgress: documents count only once one of them
\* is approved
onboardingProgress_ByReviewState(p) ==
    Min( (IF p.companyName # "" /\ p.partnerType # "" /\ p.experienceYears >= 0
             THEN 20 ELSE 0)
       + (IF Len(p.specializations) > 0 THEN 15 ELSE 0)
       + (IF Len(p.services) > 0 THEN 25 ELSE 0)
       + (IF Len(p.partnerLocations) > 0 THEN 20 ELSE 0)
       + (IF \E i \in DOMAIN p.documents : p.documents[i].status = "approved"
             THEN 20 ELSE 0), 100)

\* virtual onboardingProgress
onboardingProgress(p) ==
    Min( (IF p.companyName # "" /\ p.partnerType # "" /\ p.experienceYears >= 0
             THEN 20 ELSE 0)
       + (IF Len(p.specializations) > 0 THEN 15 ELSE 0)
       + (IF Len(p.services) > 0 THEN 25 ELSE 0)
       + (IF Len(p.partnerLocations) > 0 THEN 20 ELSE 0)
       + (IF Len(p.documents) > 0 THEN 20 ELSE 0), 100)

SomeDoc(p, st) == \E i \in DOMAIN p.documents : p.documents[i].status = st
EveryDoc(p, st) == \A i \in DOMAIN p.documents : p.documents[i].status = st

\* methods.updateOnboardingStatus: recompute the status, then save
updateOnboardingStatus(p) ==
    IF onboardingProgress(p) < 100
      THEN [p EXCEPT !.onboardingStatus = "incomplete"]
    ELSE IF Len(p.documents) = 0
      THEN [p EXCEPT !.onboardingStatus = "incomplete"]
    ELSE IF SomeDoc(p, "pending")
      THEN [p EXCEPT !.onboardingStatus = "pending_verification"]
    ELSE IF EveryDoc(p, "approved")
      THEN [p EXCEPT !.onboardingStatus = "verified", !.verified = TRUE]
    ELSE IF SomeDoc(p, "rejected")
      THEN [p EXCEPT !.onboardingStatus = "rejected"]
    ELSE p

(***************************************************************************)
(* A route handler is an operator from the stored profile (NoProfile when  *)
(* the lookup finds none) and the request to the profile it saves and the  *)
(* HTTP status it answers with.                                            *)
(***************************************************************************)
Reply(p, code) == [partner |-> p, code |-> code]

(***************************************************************************)
(* Notification service (utils/notificationService.js) and the stream      *)
(* route that registers its listeners.  `subscribers' maps an account to   *)
(* the array of callbacks registered for it (an account without a Map      *)
(* entry has the empty array: notify and notifyAdmins treat both alike);   *)
(* `inbox' holds, for every callback, the notifications it has written to  *)
(* its open stream.                                                        *)
(***************************************************************************)
AccountOf(pid) == IF pid = 1 THEN "user1" ELSE "user2"
Accounts == {AccountOf(pid) : pid \in Registered} \cup AdminIds
\* the order in which Map.forEach visits the accounts
AccountOrder == <<"user1", "admin1">>
Callbacks == 1..MaxCallbacks

\* what a callback does when it is invoked
Behaviours == [Callbacks -> {"write", "throw"}]
AllWrite == [cb \in Callbacks |-> "write"]
\* callbacks that, after writing, call unsubscribe from inside the delivery:
\* "once" removes the callback itself, "evict" removes the first other
\* callback of the same account
ReentrantBehaviours == [Callbacks -> {"write", "once", "evict"}]

NoSubscribers == [u \in Accounts |-> <<>>]
NoInbox == [cb \in Callbacks |-> <<>>]

\* Array.prototype.indexOf, 0 when the element is absent
IndexOf(s, x) ==
    IF \E i \in DOMAIN s : s[i] = x
      THEN CHOOSE i \in DOMAIN s : s[i] = x /\ \A j \in 1..(i - 1) : s[j] # x
      ELSE 0

\* Array.prototype.splice(index, 1)
Splice(s, i) == SubSeq(s, 1, i - 1) \o SubSeq(s, i + 1, Len(s))

\* subscribe(userId, callback)
subscribe(subs, userId, cb) == [subs EXCEPT ![userId] = Append(@, cb)]

\* unsubscribe(userId, callback)
unsubscribe(subs, userId, cb) ==
    IF IndexOf(subs[userId], cb) > 0
      THEN [subs EXCEPT ![userId] = Splice(@, IndexOf(@, cb))]
      ELSE subs

\* the account a callback was subscribed for (the userId its closure holds)
Holder(subs, cb) == CHOOSE u \in Accounts : cb \in SeqToSet(subs[u])

\* the callback "evict" removes: the first other callback of the account
Evicted(subs, cb) ==
    LET others == SelectSeqBy(subs[Holder(subs, cb)],
                              SeqToSet(subs[Holder(subs, cb)]) \ {cb})
    IN IF others = <<>> THEN cb ELSE Head(others)

\* faulty variant of Deliver: no try/catch around the callback
Deliver_NoCatch(st, cb, n, behave) ==
    IF behave[cb] = "throw" THEN [st EXCEPT !.thrown = TRUE]
    ELSE [st EXCEPT !.inbox[cb] = Append(@, n)]

\* try { callback(notification) } catch (error) { console.error(...) }
Deliver(st, cb, n, behave) ==
    IF behave[cb] = "throw" THEN st
    ELSE IF behave[cb] = "once"
      THEN [st EXCEPT !.inbox[cb] = Append(@, n),
                      !.subscribers = unsubscribe(@, Holder(@, cb), cb)]
    ELSE IF behave[cb] = "evict" /\ Evicted(st.subscribers, cb) # cb
      THEN [st EXCEPT !.inbox[cb] = Append(@, n),
                      !.subscribers = unsubscribe(@, Holder(@, cb), Evicted(@, cb))]
    ELSE [st EXCEPT !.inbox[cb] = Append(@, n)]

RECURSIVE ForEachCallback(_, _, _, _, _, _)
\* callbacks.forEach(...): indexes 1..len of the array as it is when each
\* index is reached; an exception that leaves a callback ends the loop
ForEachCallback(st, userId, k, len, n, behave) ==
    IF k > len \/ st.thrown THEN st
    ELSE IF k > Len(st.subscribers[userId])
      THEN ForEachCallback(st, userId, k + 1, len, n, behave)
    ELSE ForEachCallback(Deliver(st, st.subscribers[userId][k], n, behave),
                         userId, k + 1, len, n, behave)

\* faulty variant of notify: the account id is ignored and the callbacks of
\* every account are invoked
notify_ToEveryAccount(st, userId, n, behave) ==
    LET first == ForEachCallback(st, AccountOrder[1], 1,
                                 Len(st.subscribers[AccountOrder[1]]), n, behave)
    IN ForEachCallback(first, AccountOrder[2], 1,
                       Len(first.subscribers[AccountOrder[2]]), n, behave)

\* notify(userId, notification)
notify(st, userId, n, behave) ==
    ForEachCallback(st, userId, 1, Len(st.subscribers[userId]), n, behave)

RECURSIVE ForEachAccount(_, _, _, _)
\* this.subscribers.forEach((callbacks, userId) => callbacks.forEach(...))
ForEachAccount(st, order, n, behave) ==
    IF order = <<>> \/ st.thrown THEN st
    ELSE ForEachAccount(notify(st, Head(order), n, behave), Tail(order), n, behave)

\* notifyAdmins(notification)
notifyAdmins(st, n, behave) == ForEachAccount(st, AccountOrder, n, behave)

\* the service as the handlers see it
Service == [subscribers |-> subscribers, inbox |-> inbox, thrown |-> FALSE]

\* partnerSubmittedForVerification(partnerId)
partnerSubmittedForVerification(st, behave) ==
    notifyAdmins(st, "partner_verification_pending", behave)

\* partnerVerificationStatusUpdated(partnerId, status)
partnerVerificationStatusUpdated(st, pid, status, behave) ==
    LET told == notify(st, AccountOf(pid), "partner_verification_status", behave)
    IN IF status = "verified" THEN notifyAdmins(told, "partner_verified", behave)
       ELSE told

\* documentStatusUpdated(partnerId, documentId, status)
documentStatusUpdated(st, pid, behave) ==
    notify(st, AccountOf(pid), "document_status_updated", behave)

\* every open stream has room for the notifications of one more request
InboxRoom(k) == \A cb \in Callbacks : Len(inbox[cb]) + k <= MaxInbox

(***************************************************************************)
(* The rest of the stored state as it is when the server starts: no admin  *)
(* request is in flight, the Admin collection is empty, every user is a    *)
(* client or a partner, and no failed login has been counted.              *)
(***************************************************************************)
\* the admin requests that can be in flight at the same time
Requests == {1, 2}
IdleRequest ==
    [pc |-> "idle", kind |-> "", pid |-> 0, reason |-> NoReason,
     doc |-> NoProfile, code |-> 0]

\* the users of the User collection
Users == {"u1", "u2", "u3"}
NoAdminRecord == [exists |-> FALSE, role |-> "", isActive |-> FALSE, managePartners |-> FALSE]

\* client addresses (req.ip)
Ips == {"ip1", "ip2"}
NoAttempts == [present |-> FALSE, count |-> 0, lastAttempt |-> 0]

NothingElse ==
    /\ inFlight = [r \in Requests |-> IdleRequest]
    /\ adminRecords = [u \in Users |-> NoAdminRecord]
    /\ userTypes = [u \in Users |-> IF u = "u3" THEN "partner" ELSE "client"]
    /\ failedAttempts = [ip \in Ips |-> NoAttempts]
    /\ now = 0

Init ==
    /\ partners = [pid \in PartnerIds |-> IF pid \in Registered THEN NewPartner ELSE NoProfile]
    /\ subscribers = NoSubscribers
    /\ inbox = NoInbox
    /\ NothingElse

(***************************************************************************)
(* Request payloads.                                                       *)
(***************************************************************************)
\* length of the company / service names used as inputs
StrLen(s) ==
    CASE s = "" -> 0
      [] s = "A" -> 1
      [] s = "Acme" -> 4
      [] s = "Zen Studio" -> 10
      [] s = "Shoot" -> 5
      [] s = "Edit" -> 4

PartnerTypes == {"studio", "solo", "firm", "partnership"}
Specializations ==
    {"wedding_photography", "portrait_photography", "event_photography",
     "commercial_photography", "fashion_photography", "product_photography",
     "wedding_videography", "event_videography", "commercial_videography",
     "documentary_videography", "music_video", "corporate_video"}
PriceUnits == {"per_hour", "per_day", "per_project"}

\* onboardingStep = 0 stands for a body without that key
BasicInfoBodies ==
    { [companyName |-> "Acme", partnerType |-> "studio", experienceYears |-> 3,
       specializations |-> <<"wedding_photography">>, onboardingStep |-> 0],
      [companyName |-> "Zen Studio", partnerType |-> "solo", experienceYears |-> 0,
       specializations |-> <<"portrait_photography", "music_video">>, onboardingStep |-> 0],
      [companyName |-> "A", partnerType |-> "studio", experienceYears |-> 3,
       specializations |-> <<"wedding_photography">>, onboardingStep |-> 0],
      [companyName |-> "Acme", partnerType |-> "studio", experienceYears |-> 3,
       specializations |-> <<>>, onboardingStep |-> 0],
      [companyName |-> "Acme", partnerType |-> "studio", experienceYears |-> 3,
       specializations |-> <<"wedding_photography">>, onboardingStep |-> 5] }

ServiceBodies ==
    { [name |-> "Shoot", basePrice |-> 100, priceUnit |-> "per_day"],
      [name |-> "Edit", basePrice |-> 0, priceUnit |-> "per_hour"],
      [name |-> "Shoot", basePrice |-> -1, priceUnit |-> "per_day"] }

LocationBodies ==
    { [partnerLocations |-> << [city |-> "Pune", state |-> "MH"] >>,
       servingLocations |-> <<"Pune">>, onboardingStep |-> 0],
      [partnerLocations |-> <<>>,
       servingLocations |-> <<"Pune">>, onboardingStep |-> 0],
      [partnerLocations |-> << [city |-> "Pune", state |-> "MH"] >>,
       servingLocations |-> <<"Pune">>, onboardingStep |-> 5] }

PortfolioBodies == { <<>>, <<"img1">> }
ImageUrls == { "", "img1" }

GoodDoc == [docName |-> "gst", fileUrl |-> "doc1"]
BadDoc == [docName |-> "gst", fileUrl |-> ""]
DocumentBodies == { <<>>, <<GoodDoc>>, <<GoodDoc, GoodDoc>>, <<GoodDoc, BadDoc>> }
FileUploads == { <<>>, <<"gst">> }

\* middleware/partnerValidation.js: Joi schemas (unknown keys are not allowed)
validatePartnerBasicInfo(b) ==
    /\ StrLen(b.companyName) >= 2 /\ StrLen(b.companyName) <= 100
    /\ b.partnerType \in PartnerTypes
    /\ b.experienceYears >= 0 /\ b.experienceYears <= 50
    /\ Len(b.specializations) >= 1
    /\ SeqToSet(b.specializations) \subseteq Specializations
    /\ b.onboardingStep = 0

validatePartnerService(b) ==
    /\ StrLen(b.name) >= 2 /\ StrLen(b.name) <= 100
    /\ b.basePrice >= 0
    /\ b.priceUnit \in PriceUnits

validatePartnerLocation(b) ==
    /\ Len(b.partnerLocations) >= 1
    /\ \A i \in DOMAIN b.partnerLocations :
          b.partnerLocations[i].city # "" /\ b.partnerLocations[i].state # ""
    /\ Len(b.servingLocations) >= 1
    /\ b.onboardingStep = 0

\* req.body.onboardingStep || fallback
OrDefault(step, fallback) == IF step = 0 THEN fallback ELSE step

(***************************************************************************)
(* Partner-facing routes: /partner-onboarding (routes/partnerOnboarding.js)*)
(***************************************************************************)
\* faulty variant of basicInfo: a specialization list equal to the stored one
\* is taken as a request to clear it
basicInfo_TogglesSpecializations(p, b) ==
    IF ~validatePartnerBasicInfo(b) THEN Reply(p, 400)
    ELSE IF ~p.exists THEN Reply(p, 404)
    ELSE Reply(updateOnboardingStatus(
                 [p EXCEPT !.companyName = b.companyName,
                           !.partnerType = b.partnerType,
                           !.experienceYears = b.experienceYears,
                           !.specializations =
                              IF @ = b.specializations THEN <<>> ELSE b.specializations,
                           !.onboardingStep = Max(2, OrDefault(b.onboardingStep, 2))]),
               200)

\* POST /basic-info
basicInfo(p, b) ==
    IF ~validatePartnerBasicInfo(b) THEN Reply(p, 400)
    ELSE IF ~p.exists THEN Reply(p, 404)
    ELSE Reply(updateOnboardingStatus(
                 [p EXCEPT !.companyName = b.companyName,
                           !.partnerType = b.partnerType,
                           !.experienceYears = b.experienceYears,
                           !.specializations = b.specializations,
                           !.onboardingStep = Max(2, OrDefault(b.onboardingStep, 2))]),
               200)

\* the ObjectId default of a new service sub-document: an id not in use
FreshServiceId(p) ==
    CHOOSE id \in 1..(Len(p.services) + 1) :
       \A i \in DOMAIN p.services : p.services[i].serviceId # id

\* methods.addService
addService(p, b) ==
    [p EXCEPT !.services = Append(p.services,
        [serviceId |-> FreshServiceId(p), name |-> b.name,
         basePrice |-> b.basePrice, priceUnit |-> b.priceUnit])]

\* POST /services
postService(p, b, emailVerified) ==
    IF ~validatePartnerService(b) THEN Reply(p, 400)
    ELSE IF ~emailVerified THEN Reply(p, 403)
    ELSE IF ~p.exists THEN Reply(p, 404)
    ELSE LET q == addService(p, b)
         IN Reply(updateOnboardingStatus(
                    [q EXCEPT !.onboardingStep = Max(3, q.onboardingStep)]), 201)

HasService(p, sid) == \E i \in DOMAIN p.services : p.services[i].serviceId = sid

\* PATCH /services/:serviceId
patchService(p, sid, b, emailVerified) ==
    IF ~validatePartnerService(b) THEN Reply(p, 400)
    ELSE IF ~emailVerified THEN Reply(p, 403)
    ELSE IF ~p.exists THEN Reply(p, 404)
    ELSE IF ~HasService(p, sid) THEN Reply(p, 404)
    ELSE Reply([p EXCEPT !.services =
                  [i \in DOMAIN p.services |->
                     IF p.services[i].serviceId = sid
                       THEN [p.services[i] EXCEPT !.name = b.name,
                                                  !.basePrice = b.basePrice,
                                                  !.priceUnit = b.priceUnit]
                       ELSE p.services[i]]], 200)

\* methods.removeService
removeService(p, sid) ==
    [p EXCEPT !.services =
        SelectSeqBy(p.services, {s \in SeqToSet(p.services) : s.serviceId # sid})]

\* DELETE /services/:serviceId
deleteService(p, sid, emailVerified) ==
    IF ~emailVerified THEN Reply(p, 403)
    ELSE IF ~p.exists THEN Reply(p, 404)
    ELSE Reply(removeService(p, sid), 200)

\* POST /locations
postLocations(p, b) ==
    IF ~validatePartnerLocation(b) THEN Reply(p, 400)
    ELSE IF ~p.exists THEN Reply(p, 404)
    ELSE Reply(updateOnboardingStatus(
                 [p EXCEPT !.partnerLocations = b.partnerLocations,
                           !.servingLocations = b.servingLocations,
                           !.onboardingStep = Max(4, OrDefault(b.onboardingStep, 4))]),
               200)

\* POST /portfolio
postPortfolio(p, urls, emailVerified) ==
    IF ~emailVerified THEN Reply(p, 403)
    ELSE IF Len(urls) = 0 THEN Reply(p, 400)
    ELSE IF ~p.exists THEN Reply(p, 404)
    ELSE Reply(updateOnboardingStatus(
                 [p EXCEPT !.portfolio = p.portfolio \o urls,
                           !.onboardingStep = Max(4, p.onboardingStep)]), 200)

\* DELETE /portfolio
deletePortfolio(p, imageUrl) ==
    IF imageUrl = "" THEN Reply(p, 400)
    ELSE IF ~p.exists THEN Reply(p, 404)
    ELSE Reply([p EXCEPT !.portfolio =
                  SelectSeqBy(p.portfolio, SeqToSet(p.portfolio) \ {imageUrl})], 200)

\* documents.push(...docs): the new sub-documents get fresh ids
PushDocuments(p, docs) ==
    [p EXCEPT !.documents =
        p.documents \o [i \in DOMAIN docs |-> NewDocument(Len(p.documents) + i, docs[i])]]

\* POST /documents validating each entry only as it is stored
postDocuments_StoresBeforeValidating(p, docs, emailVerified) ==
    IF ~emailVerified THEN Reply(p, 403)
    ELSE IF Len(docs) = 0 THEN Reply(p, 400)
    ELSE IF ~p.exists THEN Reply(p, 404)
    ELSE IF \E i \in DOMAIN docs : docs[i].docName = "" \/ docs[i].fileUrl = ""
      THEN Reply(PushDocuments(p,
                   SelectSeqBy(docs, {d \in SeqToSet(docs) :
                                        d.docName # "" /\ d.fileUrl # ""})), 400)
    ELSE Reply(updateOnboardingStatus(
                 [PushDocuments(p, docs) EXCEPT !.onboardingStep = 5]), 200)

\* POST /documents
postDocuments(p, docs, emailVerified) ==
    IF ~emailVerified THEN Reply(p, 403)
    ELSE IF Len(docs) = 0 THEN Reply(p, 400)
    ELSE IF \E i \in DOMAIN docs : docs[i].docName = "" \/ docs[i].fileUrl = ""
      THEN Reply(p, 400)
    ELSE IF ~p.exists THEN Reply(p, 404)
    ELSE Reply(updateOnboardingStatus(
                 [PushDocuments(p, docs) EXCEPT !.onboardingStep = 5]), 200)

\* POST /complete
postComplete(p, emailVerified) ==
    IF ~emailVerified THEN Reply(p, 403)
    ELSE IF ~p.exists THEN Reply(p, 404)
    ELSE IF onboardingProgress(p) < 100 THEN Reply(p, 400)
    ELSE IF Len(p.documents) = 0 THEN Reply(p, 400)
    ELSE Reply([p EXCEPT !.onboardingStatus = "pending_verification",
                         !.onboardingStep = 5], 200)

(***************************************************************************)
(* Partner-facing routes: /partners (routes/partners.js)                   *)
(***************************************************************************)
\* POST /documents (multipart upload)
uploadDocuments(p, files, emailVerified) ==
    IF ~emailVerified THEN Reply(p, 403)
    ELSE IF Len(files) = 0 THEN Reply(p, 400)
    ELSE IF ~p.exists THEN Reply(p, 404)
    ELSE Reply(PushDocuments(p,
                 [i \in DOMAIN files |-> [docName |-> files[i], fileUrl |-> "upload"]]),
               200)

(***************************************************************************)
(* The requests as steps of the system: the handler's profile is saved.    *)
(***************************************************************************)
\* room for n more documents within the model's bound
DocRoom(pid, n) == partners[pid].exists => Len(partners[pid].documents) + n <= MaxDocs

SubmitBasicInfo(pid, b) ==
    /\ partners' = [partners EXCEPT ![pid] = basicInfo(partners[pid], b).partner]
    /\ UNCHANGED <<subscribers, inbox, inFlight, setupVars, loginVars>>

AddService(pid, b, ev) ==
    /\ partners[pid].exists => Len(partners[pid].services) < MaxServices
    /\ partners' = [partners EXCEPT ![pid] = postService(partners[pid], b, ev).partner]
    /\ UNCHANGED <<subscribers, inbox, inFlight, setupVars, loginVars>>

UpdateService(pid, sid, b, ev) ==
    /\ partners' = [partners EXCEPT ![pid] = patchService(partners[pid], sid, b, ev).partner]
    /\ UNCHANGED <<subscribers, inbox, inFlight, setupVars, loginVars>>

RemoveService(pid, sid, ev) ==
    /\ partners' = [partners EXCEPT ![pid] = deleteService(partners[pid], sid, ev).partner]
    /\ UNCHANGED <<subscribers, inbox, inFlight, setupVars, loginVars>>

SubmitLocations(pid, b) ==
    /\ partners' = [partners EXCEPT ![pid] = postLocations(partners[pid], b).partner]
    /\ UNCHANGED <<subscribers, inbox, inFlight, setupVars, loginVars>>

AddPortfolio(pid, urls, ev) ==
    /\ partners[pid].exists => Len(partners[pid].portfolio) + Len(urls) <= MaxPortfolio
    /\ partners' = [partners EXCEPT ![pid] = postPortfolio(partners[pid], urls, ev).partner]
    /\ UNCHANGED <<subscribers, inbox, inFlight, setupVars, loginVars>>

RemovePortfolio(pid, url) ==
    /\ partners' = [partners EXCEPT ![pid] = deletePortfolio(partners[pid], url).partner]
    /\ UNCHANGED <<subscribers, inbox, inFlight, setupVars, loginVars>>

SubmitDocuments(pid, docs, ev) ==
    /\ DocRoom(pid, Len(docs))
    /\ partners' = [partners EXCEPT ![pid] = postDocuments(partners[pid], docs, ev).partner]
    /\ UNCHANGED <<subscribers, inbox, inFlight, setupVars, loginVars>>

\* POST /complete: the saved profile, then the notification to the admins;
\* the callbacks of the stream route write to their response
CompleteOnboarding(pid, ev) ==
    LET r == postComplete(partners[pid], ev)
        told == IF r.code = 200
                  THEN partnerSubmittedForVerification(Service, AllWrite)
                  ELSE Service
    IN /\ r.code = 200 => InboxRoom(1)
       /\ partners' = [partners EXCEPT ![pid] = r.partner]
       /\ inbox' = told.inbox
       /\ UNCHANGED <<subscribers, inFlight, setupVars, loginVars>>

UploadDocuments(pid, files, ev) ==
    /\ DocRoom(pid, Len(files))
    /\ partners' = [partners EXCEPT ![pid] = uploadDocuments(partners[pid], files, ev).partner]
    /\ UNCHANGED <<subscribers, inbox, inFlight, setupVars, loginVars>>

PartnerStep ==
    \E pid \in PartnerIds :
       \/ \E b \in BasicInfoBodies : SubmitBasicInfo(pid, b)
       \/ \E b \in ServiceBodies, ev \in BOOLEAN : AddService(pid, b, ev)
       \/ \E sid \in ServiceIds, b \in ServiceBodies, ev \in BOOLEAN : UpdateService(pid, sid, b, ev)
       \/ \E sid \in ServiceIds, ev \in BOOLEAN : RemoveService(pid, sid, ev)
       \/ \E b \in LocationBodies : SubmitLocations(pid, b)
       \/ \E urls \in PortfolioBodies, ev \in BOOLEAN : AddPortfolio(pid, urls, ev)
       \/ \E url \in ImageUrls : RemovePortfolio(pid, url)
       \/ \E docs \in DocumentBodies, ev \in BOOLEAN : SubmitDocuments(pid, docs, ev)
       \/ \E ev \in BOOLEAN : CompleteOnboarding(pid, ev)
       \/ \E files \in FileUploads, ev \in BOOLEAN : UploadDocuments(pid, files, ev)


(***************************************************************************)
(* Admin review routes (routes/admin.js).  Every route runs behind         *)
(* authorize("admin"); `admin' is the caller's user id and t the value of  *)
(* new Date() when the handler runs.                                       *)
(***************************************************************************)
Notes == {"note"}
Reasons == {NoReason, "incomplete papers"}

HasDocument(p, did) == \E i \in DOMAIN p.documents : p.documents[i].id = did

\* the assignments of the verify branch
MarkVerified(p, admin, notes, t) ==
    [p EXCEPT !.onboardingStatus = "verified",
              !.verified = TRUE,
              !.verificationDate = t,
              !.verificationNotes = notes,
              !.verifiedBy = admin]

\* the assignments of the reject branch
MarkRejected(p, admin, reason, notes, t) ==
    [p EXCEPT !.onboardingStatus = "rejected",
              !.verified = FALSE,
              !.rejectionReason = reason,
              !.rejectionNotes = notes,
              !.rejectionDate = t,
              !.rejectedBy = admin]

\* faulty variant of verifyPartner: the status precondition is left out
verifyPartner_NoStatusCheck(p, admin, notes, t, emailOk) ==
    IF ~p.exists THEN Reply(p, 404)
    ELSE IF SomeDoc(p, "rejected") \/ SomeDoc(p, "pending") THEN Reply(p, 400)
    ELSE Reply(MarkVerified(p, admin, notes, t), IF emailOk THEN 200 ELSE 500)

\* PATCH /partners/:partnerId/verify; the email is sent after the save, and
\* a failed send is answered from the catch block
verifyPartner(p, admin, notes, t, emailOk) ==
    IF ~p.exists THEN Reply(p, 404)
    ELSE IF p.onboardingStatus # "pending_verification" THEN Reply(p, 400)
    ELSE IF SomeDoc(p, "rejected") \/ SomeDoc(p, "pending") THEN Reply(p, 400)
    ELSE Reply(MarkVerified(p, admin, notes, t), IF emailOk THEN 200 ELSE 500)

\* faulty variant of rejectPartner: the status precondition is left out
rejectPartner_NoStatusCheck(p, admin, reason, notes, t, emailOk) ==
    IF reason = NoReason THEN Reply(p, 400)
    ELSE IF ~p.exists THEN Reply(p, 404)
    ELSE Reply(MarkRejected(p, admin, reason, notes, t), IF emailOk THEN 200 ELSE 500)

\* PATCH /partners/:partnerId/reject
rejectPartner(p, admin, reason, notes, t, emailOk) ==
    IF reason = NoReason THEN Reply(p, 400)
    ELSE IF ~p.exists THEN Reply(p, 404)
    ELSE IF p.onboardingStatus # "pending_verification" THEN Reply(p, 400)
    ELSE Reply(MarkRejected(p, admin, reason, notes, t), IF emailOk THEN 200 ELSE 500)

\* the assignments of the approve handler to the looked-up document
ApproveDoc(d, admin, notes, t) ==
    [d EXCEPT !.status = "approved",
              !.reviewedAt = t,
              !.reviewedBy = admin,
              !.reviewNotes = notes]

\* the assignments of the reject handler to the looked-up document
RejectDoc(d, admin, reason, notes, t) ==
    [d EXCEPT !.status = "rejected",
              !.rejectionReason = reason,
              !.reviewedAt = t,
              !.reviewedBy = admin,
              !.reviewNotes = notes]

\* faulty variant of approveDocument: the status is recomputed after the save
approveDocument_Recomputes(p, admin, did, notes, t) ==
    IF ~p.exists THEN Reply(p, 404)
    ELSE IF ~HasDocument(p, did) THEN Reply(p, 404)
    ELSE Reply(updateOnboardingStatus(
                 [p EXCEPT !.documents =
                    [i \in DOMAIN p.documents |->
                       IF p.documents[i].id = did
                         THEN ApproveDoc(p.documents[i], admin, notes, t)
                         ELSE p.documents[i]]]), 200)

\* PATCH /partners/:partnerId/documents/:documentId/approve
approveDocument(p, admin, did, notes, t) ==
    IF ~p.exists THEN Reply(p, 404)
    ELSE IF ~HasDocument(p, did) THEN Reply(p, 404)
    ELSE Reply([p EXCEPT !.documents =
                  [i \in DOMAIN p.documents |->
                     IF p.documents[i].id = did
                       THEN ApproveDoc(p.documents[i], admin, notes, t)
                       ELSE p.documents[i]]], 200)

\* faulty variant of rejectDocument: the reason is not required
rejectDocument_ReasonOptional(p, admin, did, reason, notes, t) ==
    IF ~p.exists THEN Reply(p, 404)
    ELSE IF ~HasDocument(p, did) THEN Reply(p, 404)
    ELSE Reply([p EXCEPT !.documents =
                  [i \in DOMAIN p.documents |->
                     IF p.documents[i].id = did
                       THEN RejectDoc(p.documents[i], admin, reason, notes, t)
                       ELSE p.documents[i]]], 200)

\* PATCH /partners/:partnerId/documents/:documentId/reject
rejectDocument(p, admin, did, reason, notes, t) ==
    IF reason = NoReason THEN Reply(p, 400)
    ELSE IF ~p.exists THEN Reply(p, 404)
    ELSE IF ~HasDocument(p, did) THEN Reply(p, 404)
    ELSE Reply([p EXCEPT !.documents =
                  [i \in DOMAIN p.documents |->
                     IF p.documents[i].id = did
                       THEN RejectDoc(p.documents[i], admin, reason, notes, t)
                       ELSE p.documents[i]]], 200)

\* request bodies of the bulk route; hasIds is FALSE for a body whose
\* partnerIds is missing or not an array
BulkIdLists == { <<>>, <<1>>, <<2>>, <<1, 2>> }
BulkBodies ==
    { [action |-> "verify", hasIds |-> TRUE, partnerIds |-> ids, reason |-> NoReason] :
        ids \in BulkIdLists }
    \cup
    { [action |-> "reject", hasIds |-> TRUE, partnerIds |-> ids, reason |-> r] :
        ids \in BulkIdLists, r \in Reasons }
    \cup
    { [action |-> "", hasIds |-> TRUE, partnerIds |-> <<1>>, reason |-> "incomplete papers"],
      [action |-> "reject", hasIds |-> FALSE, partnerIds |-> <<>>, reason |-> "incomplete papers"] }

\* Partner.find({_id: {$in: ids}, onboardingStatus: "pending_verification"})
FindPending(ps, ids) ==
    SelectSeqBy(ids, {pid \in SeqToSet(ids) :
                        ps[pid].exists /\ ps[pid].onboardingStatus = "pending_verification"})

\* faulty variant of BulkItem: bulk verify does not look at the documents
BulkItem_SkipsDocCheck(p, pid, b, admin, notes, t, emailOk) ==
    IF b.action = "verify"
      THEN [partner |-> MarkVerified(p, admin, notes, t),
            result |-> << [partnerId |-> pid,
                           status |-> IF emailOk THEN "verified" ELSE "error"] >>]
    ELSE IF b.action = "reject"
      THEN [partner |-> MarkRejected(p, admin, b.reason, notes, t),
            result |-> << [partnerId |-> pid,
                           status |-> IF emailOk THEN "rejected" ELSE "error"] >>]
    ELSE [partner |-> p, result |-> <<>>]

\* one iteration of the bulk loop: the stored profile and the result entry;
\* a failed email send lands in the per-item catch
BulkItem(p, pid, b, admin, notes, t, emailOk) ==
    IF b.action = "verify"
      THEN IF ~SomeDoc(p, "rejected") /\ ~SomeDoc(p, "pending")
             THEN [partner |-> MarkVerified(p, admin, notes, t),
                   result |-> << [partnerId |-> pid,
                                  status |-> IF emailOk THEN "verified" ELSE "error"] >>]
             ELSE [partner |-> p,
                   result |-> << [partnerId |-> pid, status |-> "skipped"] >>]
    ELSE IF b.action = "reject"
      THEN [partner |-> MarkRejected(p, admin, b.reason, notes, t),
            result |-> << [partnerId |-> pid,
                           status |-> IF emailOk THEN "rejected" ELSE "error"] >>]
    ELSE [partner |-> p, result |-> <<>>]

RECURSIVE BulkLoop_AbortsOnError(_, _, _, _, _, _, _)
\* faulty variant of BulkLoop: without the per-item catch, an item whose email
\* send fails ends the batch
BulkLoop_AbortsOnError(found, st, b, admin, notes, t, emailFails) ==
    IF found = <<>> THEN st
    ELSE LET pid == Head(found)
             item == BulkItem(st.partners[pid], pid, b, admin, notes, t,
                              pid \notin emailFails)
             next == [st EXCEPT !.partners[pid] = item.partner,
                                !.results = st.results \o item.result]
         IN IF item.result # <<>> /\ item.result[1].status = "error"
              THEN [next EXCEPT !.code = 500]
              ELSE BulkLoop_AbortsOnError(Tail(found), next, b, admin, notes, t, emailFails)

RECURSIVE BulkLoop(_, _, _, _, _, _, _)
\* for (const partner of partners) { ... }: the store and the results so far
BulkLoop(found, st, b, admin, notes, t, emailFails) ==
    IF found = <<>> THEN st
    ELSE LET pid == Head(found)
             item == BulkItem(st.partners[pid], pid, b, admin, notes, t,
                              pid \notin emailFails)
         IN BulkLoop(Tail(found),
                     [st EXCEPT !.partners[pid] = item.partner,
                                !.results = st.results \o item.result],
                     b, admin, notes, t, emailFails)

\* PATCH /partners/bulk-action
bulkAction(ps, b, admin, notes, t, emailFails) ==
    IF b.action = "" \/ ~b.hasIds
      THEN [partners |-> ps, code |-> 400, results |-> <<>>]
    ELSE IF b.action = "reject" /\ b.reason = NoReason
      THEN [partners |-> ps, code |-> 400, results |-> <<>>]
    ELSE IF FindPending(ps, b.partnerIds) = <<>>
      THEN [partners |-> ps, code |-> 404, results |-> <<>>]
    ELSE BulkLoop(FindPending(ps, b.partnerIds),
                  [partners |-> ps, code |-> 200, results |-> <<>>],
                  b, admin, notes, t, emailFails)

VerifyPartner(admin, pid, notes, t, emailOk) ==
    /\ partners' = [partners EXCEPT ![pid] = verifyPartner(partners[pid], admin, notes, t, emailOk).partner]
    /\ UNCHANGED <<subscribers, inbox, inFlight, setupVars, loginVars>>

RejectPartner(admin, pid, reason, notes, t, emailOk) ==
    /\ partners' = [partners EXCEPT ![pid] = rejectPartner(partners[pid], admin, reason, notes, t, emailOk).partner]
    /\ UNCHANGED <<subscribers, inbox, inFlight, setupVars, loginVars>>

ApproveDocument(admin, pid, did, notes, t) ==
    /\ partners' = [partners EXCEPT ![pid] = approveDocument(partners[pid], admin, did, notes, t).partner]
    /\ UNCHANGED <<subscribers, inbox, inFlight, setupVars, loginVars>>

RejectDocument(admin, pid, did, reason, notes, t) ==
    /\ partners' = [partners EXCEPT ![pid] = rejectDocument(partners[pid], admin, did, reason, notes, t).partner]
    /\ UNCHANGED <<subscribers, inbox, inFlight, setupVars, loginVars>>

BulkAction(admin, b, notes, t, emailFails) ==
    /\ partners' = bulkAction(partners, b, admin, notes, t, emailFails).partners
    /\ UNCHANGED <<subscribers, inbox, inFlight, setupVars, loginVars>>

AdminStep ==
    \E admin \in AdminIds, notes \in Notes, t \in Times :
       \/ \E pid \in PartnerIds, emailOk \in BOOLEAN :
             VerifyPartner(admin, pid, notes, t, emailOk)
       \/ \E pid \in PartnerIds, reason \in Reasons, emailOk \in BOOLEAN :
             RejectPartner(admin, pid, reason, notes, t, emailOk)
       \/ \E pid \in PartnerIds, did \in DocIds :
             ApproveDocument(admin, pid, did, notes, t)
       \/ \E pid \in PartnerIds, did \in DocIds, reason \in Reasons :
             RejectDocument(admin, pid, did, reason, notes, t)
       \/ \E b \in BulkBodies, emailFails \in SUBSET Registered :
             BulkAction(admin, b, notes, t, emailFails)

Next == PartnerStep \/ AdminStep

Spec == Init /\ [][Next]_vars

(***************************************************************************)
(* The review phase on its own: the partner has completed basic info,      *)
(* services and locations (the profile those three requests leave), and    *)
(* from there submits documents and is reviewed by the admins.             *)
(***************************************************************************)
ReviewReady ==
    LET b == CHOOSE x \in BasicInfoBodies : validatePartnerBasicInfo(x)
        sv == CHOOSE x \in ServiceBodies : validatePartnerService(x)
        l == CHOOSE x \in LocationBodies : validatePartnerLocation(x)
    IN postLocations(postService(basicInfo(NewPartner, b).partner, sv, TRUE).partner, l).partner

InitReview ==
    /\ partners = [pid \in PartnerIds |-> IF pid \in Registered THEN ReviewReady ELSE NoProfile]
    /\ subscribers = NoSubscribers
    /\ inbox = NoInbox
    /\ NothingElse

ReviewPartnerStep ==
    \E pid \in PartnerIds :
       \/ \E b \in LocationBodies : SubmitLocations(pid, b)
       \/ \E docs \in DocumentBodies, ev \in BOOLEAN : SubmitDocuments(pid, docs, ev)
       \/ \E ev \in BOOLEAN : CompleteOnboarding(pid, ev)
       \/ \E files \in FileUploads, ev \in BOOLEAN : UploadDocuments(pid, files, ev)

NextReview == ReviewPartnerStep \/ AdminStep

SpecReview == InitReview /\ [][NextReview]_vars

(***************************************************************************)
(* The review of several partners at once: two accounts, the second of     *)
(* which may or may not have a profile, submit documents and are reviewed  *)
(* one by one or in bulk.  Documents of the first account are approved or  *)
(* rejected, those of the second are approved or left pending.             *)
(***************************************************************************)
InitBulk ==
    /\ \E second \in {ReviewReady, NoProfile} :
          partners = [pid \in PartnerIds |-> IF pid \in Registered THEN ReviewReady ELSE second]
    /\ subscribers = NoSubscribers
    /\ inbox = NoInbox
    /\ NothingElse

NextBulk ==
    \E pid \in PartnerIds, admin \in AdminIds, notes \in Notes :
       \/ SubmitDocuments(pid, <<GoodDoc>>, TRUE)
       \/ \E did \in DocIds : ApproveDocument(admin, pid, did, notes, 1)
       \/ \E did \in DocIds :
             pid \in Registered /\ RejectDocument(admin, pid, did, "incomplete papers", notes, 1)
       \/ VerifyPartner(admin, pid, notes, 1, TRUE)
       \/ RejectPartner(admin, pid, "incomplete papers", notes, 1, TRUE)
       \/ \E b \in BulkBodies : BulkAction(admin, b, notes, 1, {})

SpecBulk == InitBulk /\ [][NextBulk]_vars

(***************************************************************************)
(* The admin router as it is mounted: every request passes                 *)
(* authorize("admin") and then reaches its handler.  A caller is the       *)
(* authenticated user of the request together with the Admin record        *)
(* stored for that user, if any.                                           *)
(***************************************************************************)
NoAdmin == [exists |-> FALSE]

AdminRecord(active, managePartners) ==
    [exists |-> TRUE, isActive |-> active, permissions |-> [managePartners |-> managePartners]]

Callers ==
    { [id |-> "admin1", userType |-> "admin", admin |-> AdminRecord(TRUE, TRUE)],
      [id |-> "admin2", userType |-> "admin", admin |-> AdminRecord(TRUE, FALSE)],
      [id |-> "admin3", userType |-> "admin", admin |-> AdminRecord(FALSE, TRUE)],
      [id |-> "admin4", userType |-> "admin", admin |-> NoAdmin],
      [id |-> "client1", userType |-> "client", admin |-> NoAdmin] }

\* middleware/firebaseAuth.js authorize(...roles): the status it answers, 0
\* when it calls next()
authorize(caller, roles) == IF caller.userType \notin roles THEN 403 ELSE 0

\* Admin.hasPermission
hasPermission(admin, permission) == admin.permissions[permission] = TRUE

\* requireAdminPermission(permission): the status it answers, 0 when it calls
\* next()
requireAdminPermission(caller, permission) ==
    IF caller.userType # "admin" THEN 403
    ELSE IF ~caller.admin.exists \/ ~caller.admin.isActive THEN 403
    ELSE IF ~hasPermission(caller.admin, permission) THEN 403
    ELSE 0

\* the middleware chain in front of the admin handlers
adminRouter(caller) == authorize(caller, {"admin"})

AdminVerifyPartner(caller, pid, notes, t, emailOk) ==
    /\ partners' = [partners EXCEPT ![pid] =
          IF adminRouter(caller) # 0 THEN @
          ELSE verifyPartner(@, caller.id, notes, t, emailOk).partner]
    /\ UNCHANGED <<subscribers, inbox, inFlight, setupVars, loginVars>>

AdminRejectPartner(caller, pid, reason, notes, t, emailOk) ==
    /\ partners' = [partners EXCEPT ![pid] =
          IF adminRouter(caller) # 0 THEN @
          ELSE rejectPartner(@, caller.id, reason, notes, t, emailOk).partner]
    /\ UNCHANGED <<subscribers, inbox, inFlight, setupVars, loginVars>>

AdminApproveDocument(caller, pid, did, notes, t) ==
    /\ partners' = [partners EXCEPT ![pid] =
          IF adminRouter(caller) # 0 THEN @
          ELSE approveDocument(@, caller.id, did, notes, t).partner]
    /\ UNCHANGED <<subscribers, inbox, inFlight, setupVars, loginVars>>

AdminRejectDocument(caller, pid, did, reason, notes, t) ==
    /\ partners' = [partners EXCEPT ![pid] =
          IF adminRouter(caller) # 0 THEN @
          ELSE rejectDocument(@, caller.id, did, reason, notes, t).partner]
    /\ UNCHANGED <<subscribers, inbox, inFlight, setupVars, loginVars>>

AdminBulkAction(caller, b, notes, t, emailFails) ==
    /\ partners' = IF adminRouter(caller) # 0 THEN partners
                   ELSE bulkAction(partners, b, caller.id, notes, t, emailFails).partners
    /\ UNCHANGED <<subscribers, inbox, inFlight, setupVars, loginVars>>

NextAccess ==
    \/ \E pid \in PartnerIds : SubmitDocuments(pid, <<GoodDoc>>, TRUE)
    \/ \E caller \in Callers, pid \in PartnerIds, notes \in Notes :
          \/ AdminVerifyPartner(caller, pid, notes, 1, TRUE)
          \/ AdminRejectPartner(caller, pid, "incomplete papers", notes, 1, TRUE)
          \/ \E did \in DocIds : AdminApproveDocument(caller, pid, did, notes, 1)
          \/ \E did \in DocIds :
                AdminRejectDocument(caller, pid, did, "incomplete papers", notes, 1)
    \/ \E caller \in Callers, b \in BulkBodies, notes \in Notes :
          AdminBulkAction(caller, b, notes, 1, {})

SpecAccess == InitReview /\ [][NextAccess]_vars

(***************************************************************************)
(* The notification service on its own: streams are opened and closed      *)
(* by the stream route, and notifications are sent to one account or to    *)
(* all of them, with callbacks that write or throw.                        *)
(***************************************************************************)
NotificationTypes ==
    {"partner_verification_pending", "document_status_updated",
     "partner_verification_status", "partner_verified"}

Subscribed(cb) == \E u \in Accounts : cb \in SeqToSet(subscribers[u])

\* GET /stream: a new callback is subscribed for the caller's account
OpenStream(u, cb) ==
    /\ ~Subscribed(cb)
    /\ subscribers' = subscribe(subscribers, u, cb)
    /\ inbox' = [inbox EXCEPT ![cb] = <<>>]
    /\ UNCHANGED <<partners, inFlight, setupVars, loginVars>>

\* req.on("close"): the callback of the stream is unsubscribed
CloseStream(u, cb) ==
    /\ cb \in SeqToSet(subscribers[u])
    /\ subscribers' = unsubscribe(subscribers, u, cb)
    /\ inbox' = [inbox EXCEPT ![cb] = <<>>]
    /\ UNCHANGED <<partners, inFlight, setupVars, loginVars>>

Notify(u, n, behave) ==
    /\ InboxRoom(1)
    /\ subscribers' = notify(Service, u, n, behave).subscribers
    /\ inbox' = notify(Service, u, n, behave).inbox
    /\ UNCHANGED <<partners, inFlight, setupVars, loginVars>>

NotifyAdmins(n, behave) ==
    /\ InboxRoom(1)
    /\ subscribers' = notifyAdmins(Service, n, behave).subscribers
    /\ inbox' = notifyAdmins(Service, n, behave).inbox
    /\ UNCHANGED <<partners, inFlight, setupVars, loginVars>>

NextNotify ==
    \/ \E u \in Accounts, cb \in Callbacks : OpenStream(u, cb)
    \/ \E u \in Accounts, cb \in Callbacks : CloseStream(u, cb)
    \/ \E u \in Accounts, behave \in Behaviours :
          Notify(u, "partner_verification_status", behave)
    \/ \E behave \in Behaviours : NotifyAdmins("partner_verification_pending", behave)

SpecNotify == Init /\ [][NextNotify]_vars

(***************************************************************************)
(* The notification service with listeners that unsubscribe while an event *)
(* is being delivered.                                                     *)
(***************************************************************************)
NotifyReentrant(u, n, behave) ==
    /\ InboxRoom(1)
    /\ subscribers' = notify(Service, u, n, behave).subscribers
    /\ inbox' = notify(Service, u, n, behave).inbox
    /\ UNCHANGED <<partners, inFlight, setupVars, loginVars>>

NextReentrant ==
    \/ \E u \in Accounts, cb \in Callbacks : OpenStream(u, cb)
    \/ \E u \in Accounts, cb \in Callbacks : CloseStream(u, cb)
    \/ \E u \in Accounts, n \in NotificationTypes, behave \in ReentrantBehaviours :
          NotifyReentrant(u, n, behave)

SpecReentrant == Init /\ [][NextReentrant]_vars

(***************************************************************************)
(* The review phase with open notification streams: partners and admins    *)
(* listen on their streams while documents are submitted and reviewed.     *)
(***************************************************************************)
NextStream ==
    \/ \E u \in Accounts, cb \in Callbacks : OpenStream(u, cb)
    \/ \E u \in Accounts, cb \in Callbacks : CloseStream(u, cb)
    \/ \E pid \in PartnerIds : SubmitDocuments(pid, <<GoodDoc>>, TRUE)
    \/ \E pid \in PartnerIds : CompleteOnboarding(pid, TRUE)
    \/ \E admin \in AdminIds, pid \in PartnerIds, notes \in Notes :
          \/ VerifyPartner(admin, pid, notes, 1, TRUE)
          \/ RejectPartner(admin, pid, "incomplete papers", notes, 1, TRUE)
          \/ \E did \in DocIds : ApproveDocument(admin, pid, did, notes, 1)
          \/ \E did \in DocIds : RejectDocument(admin, pid, did, "incomplete papers", notes, 1)

SpecStream == InitReview /\ [][NextStream]_vars

(***************************************************************************)
(* The partner's side on its own: the onboarding routes, with no admin     *)
(* acting on the profile.                                                  *)
(***************************************************************************)
NextProfile == PartnerStep

SpecProfile == Init /\ [][NextProfile]_vars

(***************************************************************************)
(* Two admin requests on the same partner in flight at once.  A handler    *)
(* awaits Partner.findById, then checks and assigns on the document it     *)
(* loaded and awaits save(); the other request may run between the two.    *)
(* save() writes the paths whose value differs from the loaded one.        *)
(***************************************************************************)
\* a partner in pending_verification whose only document is approved
AwaitingDecision ==
    approveDocument(postDocuments(ReviewReady, <<GoodDoc>>, TRUE).partner,
                    "admin1", 1, "note", 1).partner

InitRace ==
    /\ partners = [pid \in PartnerIds |->
                      IF pid \in Registered THEN AwaitingDecision ELSE NoProfile]
    /\ subscribers = NoSubscribers
    /\ inbox = NoInbox
    /\ NothingElse

\* document.save(): the update sets the modified paths of the loaded document
SaveModified(stored, loaded, assigned) ==
    [f \in DOMAIN stored |-> IF assigned[f] # loaded[f] THEN assigned[f] ELSE stored[f]]

\* the handler from its start to the await of Partner.findById
LoadPartner(r, kind, pid, reason) ==
    /\ inFlight[r].pc = "idle"
    /\ inFlight' = [inFlight EXCEPT ![r] =
          IF kind = "reject" /\ reason = NoReason
            THEN [IdleRequest EXCEPT !.pc = "done", !.kind = kind, !.pid = pid, !.code = 400]
            ELSE [pc |-> "loaded", kind |-> kind, pid |-> pid, reason |-> reason,
                  doc |-> partners[pid], code |-> 0]]
    /\ UNCHANGED <<partners, subscribers, inbox, setupVars, loginVars>>

\* the handler from the loaded document to its response: the checks and the
\* assignments on the loaded document, the save and the email
SaveDecision(r, admin, notes, t, emailOk) ==
    LET req == inFlight[r]
        out == IF req.kind = "verify"
                 THEN verifyPartner(req.doc, admin, notes, t, emailOk)
                 ELSE rejectPartner(req.doc, admin, req.reason, notes, t, emailOk)
    IN /\ req.pc = "loaded"
       /\ partners' = [partners EXCEPT ![req.pid] =
             IF out.partner = req.doc THEN @
             ELSE SaveModified(@, req.doc, out.partner)]
       /\ inFlight' = [inFlight EXCEPT ![r].pc = "done", ![r].code = out.code]
       /\ UNCHANGED <<subscribers, inbox, setupVars, loginVars>>

\* the response has been sent
Finish(r) ==
    /\ inFlight[r].pc = "done"
    /\ inFlight' = [inFlight EXCEPT ![r] = IdleRequest]
    /\ UNCHANGED <<partners, subscribers, inbox, setupVars, loginVars>>

NextRace ==
    \E r \in Requests :
       \/ \E kind \in {"verify", "reject"}, pid \in PartnerIds, reason \in Reasons :
             LoadPartner(r, kind, pid, reason)
       \/ \E admin \in AdminIds, notes \in Notes, t \in Times, emailOk \in BOOLEAN :
             SaveDecision(r, admin, notes, t, emailOk)
       \/ Finish(r)

SpecRace == InitRace /\ [][NextRace]_vars

(***************************************************************************)
(* Admin setup routes (routes/adminSetup.js).  An Admin record is kept per *)
(* user (userId is unique), so a record is addressed by its user; of the   *)
(* permissions managePartners is kept.  A handler returns the two          *)
(* collections as its transaction leaves them and the status it answers.   *)
(***************************************************************************)
Roles == {"super_admin", "admin", "moderator"}
\* role of a request body: "" when absent, "owner" outside the schema's enum
RoleBodies == Roles \cup {"", "owner"}
\* permissions of a request body: absent, managePartners true or false
PermissionBodies == {"none", "grant", "revoke"}
\* userId or adminId of a request: a user, an unknown id, or "" when absent
Targets == Users \cup {"nobody", ""}
\* setupKey of the request against SUPER_ADMIN_SETUP_KEY
SetupKeys == {"disabled", "wrong", "right"}

SetupReply(a, ut, code) == [admins |-> a, users |-> ut, code |-> code]

NewAdminRecord(role, managePartners) ==
    [exists |-> TRUE, role |-> role, isActive |-> TRUE, managePartners |-> managePartners]

\* Admin.findOne({ role: "super_admin" })
HasSuperAdmin(a) == \E u \in Users : a[u].exists /\ a[u].role = "super_admin"

\* Admin.findOne({ userId: req.user.id, role: "super_admin", isActive: true })
RequesterIsSuperAdmin(a, caller) ==
    a[caller].exists /\ a[caller].role = "super_admin" /\ a[caller].isActive

\* { ...current, ...permissions }
MergePermission(current, perm) ==
    IF perm = "grant" THEN TRUE ELSE IF perm = "revoke" THEN FALSE ELSE current

\* POST /create-super-admin
createSuperAdmin(a, ut, caller, setupKey, emailAllowed) ==
    IF HasSuperAdmin(a) THEN SetupReply(a, ut, 400)
    ELSE IF setupKey = "disabled" THEN SetupReply(a, ut, 403)
    ELSE IF setupKey # "right" THEN SetupReply(a, ut, 401)
    ELSE IF ~emailAllowed THEN SetupReply(a, ut, 403)
    ELSE IF a[caller].exists THEN SetupReply(a, ut, 400)
    ELSE SetupReply([a EXCEPT ![caller] = NewAdminRecord("super_admin", TRUE)],
                    [ut EXCEPT ![caller] = "admin"], 201)

\* POST /create-admin
createAdmin(a, ut, caller, userId, role, perm) ==
    LET r == IF role = "" THEN "admin" ELSE role
    IN IF ~RequesterIsSuperAdmin(a, caller) THEN SetupReply(a, ut, 400)
       ELSE IF userId = "" THEN SetupReply(a, ut, 400)
       ELSE IF userId \notin Users THEN SetupReply(a, ut, 400)
       ELSE IF ut[userId] = "admin" THEN SetupReply(a, ut, 400)
       ELSE IF a[userId].exists THEN SetupReply(a, ut, 400)
       ELSE IF r \notin Roles THEN SetupReply(a, ut, 400)
       ELSE SetupReply([a EXCEPT ![userId] = NewAdminRecord(r, MergePermission(TRUE, perm))],
                       [ut EXCEPT ![userId] = "admin"], 201)

\* PATCH /admins/:adminId/permissions
updatePermissions(a, ut, caller, adminId, perm, role) ==
    IF ~RequesterIsSuperAdmin(a, caller) THEN SetupReply(a, ut, 403)
    ELSE IF adminId \notin Users THEN SetupReply(a, ut, 404)
    ELSE IF ~a[adminId].exists THEN SetupReply(a, ut, 404)
    ELSE IF a[adminId].role = "super_admin" THEN SetupReply(a, ut, 403)
    ELSE LET r == IF role # "" /\ role # "super_admin" THEN role ELSE a[adminId].role
         IN IF r \notin Roles THEN SetupReply(a, ut, 500)
            ELSE SetupReply([a EXCEPT ![adminId].managePartners = MergePermission(@, perm),
                                      ![adminId].role = r], ut, 200)

\* PATCH /admins/:adminId/deactivate
deactivateAdmin(a, ut, caller, adminId) ==
    IF ~RequesterIsSuperAdmin(a, caller) THEN SetupReply(a, ut, 400)
    ELSE IF adminId \notin Users THEN SetupReply(a, ut, 400)
    ELSE IF ~a[adminId].exists THEN SetupReply(a, ut, 400)
    ELSE IF a[adminId].role = "super_admin" THEN SetupReply(a, ut, 400)
    ELSE IF adminId = caller THEN SetupReply(a, ut, 400)
    ELSE SetupReply([a EXCEPT ![adminId].isActive = FALSE],
                    [ut EXCEPT ![adminId] = "client"], 200)

CreateSuperAdmin(caller, setupKey, emailAllowed) ==
    LET out == createSuperAdmin(adminRecords, userTypes, caller, setupKey, emailAllowed)
    IN /\ adminRecords' = out.admins
       /\ userTypes' = out.users
       /\ UNCHANGED <<partners, subscribers, inbox, inFlight, loginVars>>

CreateAdmin(caller, userId, role, perm) ==
    LET out == createAdmin(adminRecords, userTypes, caller, userId, role, perm)
    IN /\ adminRecords' = out.admins
       /\ userTypes' = out.users
       /\ UNCHANGED <<partners, subscribers, inbox, inFlight, loginVars>>

UpdatePermissions(caller, adminId, perm, role) ==
    LET out == updatePermissions(adminRecords, userTypes, caller, adminId, perm, role)
    IN /\ adminRecords' = out.admins
       /\ userTypes' = out.users
       /\ UNCHANGED <<partners, subscribers, inbox, inFlight, loginVars>>

DeactivateAdmin(caller, adminId) ==
    LET out == deactivateAdmin(adminRecords, userTypes, caller, adminId)
    IN /\ adminRecords' = out.admins
       /\ userTypes' = out.users
       /\ UNCHANGED <<partners, subscribers, inbox, inFlight, loginVars>>

NextSetup ==
    \E caller \in Users :
       \/ \E setupKey \in SetupKeys, emailAllowed \in BOOLEAN :
             CreateSuperAdmin(caller, setupKey, emailAllowed)
       \/ \E userId \in Targets, role \in RoleBodies, perm \in PermissionBodies :
             CreateAdmin(caller, userId, role, perm)
       \/ \E adminId \in Targets, perm \in PermissionBodies, role \in RoleBodies :
             UpdatePermissions(caller, adminId, perm, role)
       \/ \E adminId \in Targets : DeactivateAdmin(caller, adminId)

SpecSetup == Init /\ [][NextSetup]_vars

(***************************************************************************)
(* Login and its lockout (routes/auth.js).  The clock counts units of five *)
(* minutes from the start of the server; the interval set at start-up      *)
(* fires every hour.                                                       *)
(***************************************************************************)
\* 15 * 60 * 1000 ms
LockWindow == 3
\* 60 * 60 * 1000 ms
CleanupEvery == 12
LoginReply(fa, code) == [failedAttempts |-> fa, code |-> code]

\* the check at the head of POST /login
Locked(fa, ip, t) ==
    fa[ip].present /\ fa[ip].count >= 5 /\ t - fa[ip].lastAttempt < LockWindow

\* POST /login at time t; found: User.findById returned the user
login(fa, ip, found, t) ==
    IF Locked(fa, ip, t) THEN LoginReply(fa, 429)
    ELSE IF ~found
      THEN LoginReply([fa EXCEPT ![ip] = [present |-> TRUE,
                                          count |-> fa[ip].count + 1,
                                          lastAttempt |-> t]], 404)
    ELSE LoginReply([fa EXCEPT ![ip] = NoAttempts], 200)

\* the callback of setInterval
cleanup(fa, t) ==
    [ip \in Ips |-> IF fa[ip].present /\ t - fa[ip].lastAttempt > LockWindow
                      THEN NoAttempts ELSE fa[ip]]

Login(ip, found) ==
    /\ (~found /\ ~Locked(failedAttempts, ip, now)) => failedAttempts[ip].count < MaxFailures
    /\ failedAttempts' = login(failedAttempts, ip, found, now).failedAttempts
    /\ UNCHANGED <<partners, subscribers, inbox, inFlight, setupVars, now>>

Cleanup ==
    /\ now > 0 /\ now % CleanupEvery = 0
    /\ failedAttempts' = cleanup(failedAttempts, now)
    /\ UNCHANGED <<partners, subscribers, inbox, inFlight, setupVars, now>>

\* time passes
Tick ==
    /\ now < MaxNow
    /\ now' = now + 1
    /\ UNCHANGED <<partners, subscribers, inbox, inFlight, setupVars, failedAttempts>>

NextLogin ==
    \/ \E ip \in Ips, found \in BOOLEAN : Login(ip, found)
    \/ Cleanup
    \/ Tick

SpecLogin == Init /\ [][NextLogin]_vars

Statuses == {"incomplete", "pending_verification", "verified", "rejected"}

TypeOK ==
    \A pid \in PartnerIds :
       partners[pid].exists =>
          /\ partners[pid].onboardingStatus \in Statuses
          /\ Len(partners[pid].documents) <= MaxDocs

(***************************************************************************)
(* Properties of the onboarding status and the review workflow.            *)
(***************************************************************************)
Profile(pid) == partners[pid]
Existing == {pid \in PartnerIds : partners[pid].exists}
\* the verify precondition of the review workflow
Eligible(p) ==
    /\ p.exists
    /\ p.onboardingStatus = "pending_verification"
    /\ ~SomeDoc(p, "pending")
    /\ ~SomeDoc(p, "rejected")

\* C1: a partner whose onboardingStatus is verified has a non-empty documents
\* list in which every document is approved.
C1_VerifiedHasOnlyApprovedDocs ==
    \A pid \in Existing :
       Profile(pid).onboardingStatus = "verified" =>
          /\ Len(Profile(pid).documents) > 0
          /\ EveryDoc(Profile(pid), "approved")

\* C2: a partner whose onboardingStatus is rejected has at least one document
\* with status rejected.
C2_RejectedHasRejectedDoc ==
    \A pid \in Existing :
       Profile(pid).onboardingStatus = "rejected" => SomeDoc(Profile(pid), "rejected")

\* C3: a partner whose onboardingStatus is pending_verification has progress
\* 100, at least one pending document and no rejected document.
C3_PendingVerificationShape ==
    \A pid \in Existing :
       Profile(pid).onboardingStatus = "pending_verification" =>
          /\ onboardingProgress(Profile(pid)) = 100
          /\ SomeDoc(Profile(pid), "pending")
          /\ ~SomeDoc(Profile(pid), "rejected")

\* C4: the status becomes verified only as the effect of an admin verification
\* (single or bulk) of an eligible partner; no other step moves it to verified.
C4_VerifiedOnlyByAdmin ==
    [][\A pid \in PartnerIds :
          ( /\ partners[pid].exists
            /\ partners[pid].onboardingStatus # "verified"
            /\ partners'[pid].onboardingStatus = "verified" )
          => /\ Eligible(partners[pid])
             /\ \E admin \in AdminIds, notes \in Notes, t \in Times :
                   partners'[pid] = MarkVerified(partners[pid], admin, notes, t)]_vars

\* C5: onboardingStep never decreases in any step of the system and stays
\* within 1..5.
C5_StepNeverDecreases ==
    [][\A pid \in PartnerIds :
          partners[pid].exists =>
             /\ partners'[pid].onboardingStep >= partners[pid].onboardingStep
             /\ partners'[pid].onboardingStep \in 1..5]_vars

\* C6: once a document is approved or rejected, no step changes its status,
\* reviewer or review time again.
C6_ReviewedDocumentIsFinal ==
    [][\A pid \in PartnerIds :
          partners[pid].exists =>
             \A i \in DOMAIN partners[pid].documents :
                partners[pid].documents[i].status # "pending" =>
                   /\ partners'[pid].documents[i].status = partners[pid].documents[i].status
                   /\ partners'[pid].documents[i].reviewedBy = partners[pid].documents[i].reviewedBy
                   /\ partners'[pid].documents[i].reviewedAt = partners[pid].documents[i].reviewedAt]_vars

\* C7: approving a document that is not pending is answered with an error and
\* leaves the partner profile unchanged.
C7_ApproveNeedsPendingDocument ==
    \A pid \in Existing :
       \A i \in DOMAIN Profile(pid).documents :
          Profile(pid).documents[i].status # "pending" =>
             \A admin \in AdminIds, notes \in Notes, t \in Times :
                LET r == approveDocument(Profile(pid), admin, Profile(pid).documents[i].id, notes, t)
                IN r.code >= 400 /\ r.partner = Profile(pid)

\* C8: verifyPartner and rejectPartner on a partner that is not in
\* pending_verification answer 400 and leave the profile as it is, so a
\* verification or rejection that follows a successful verification stamps nothing.
C8_VerifyNeedsPendingVerification ==
    \A pid \in Existing :
       Profile(pid).onboardingStatus # "pending_verification" =>
          \A admin \in AdminIds, notes \in Notes, t \in Times, emailOk \in BOOLEAN :
             /\ verifyPartner(Profile(pid), admin, notes, t, emailOk) = Reply(Profile(pid), 400)
             /\ \A reason \in Reasons :
                   rejectPartner(Profile(pid), admin, reason, notes, t, emailOk)
                      = Reply(Profile(pid), 400)

\* a verification by an admin has happened and the partner is still verified
C8_Witness ==
    \E pid \in Existing :
       /\ Profile(pid).onboardingStatus = "verified"
       /\ Profile(pid).verificationDate \in Times
       /\ Profile(pid).verifiedBy \in AdminIds

\* the stamps of a successful verification
VerifiedBy(q, admin, notes, t) ==
    /\ q.onboardingStatus = "verified"
    /\ q.verified = TRUE
    /\ q.verificationDate = t
    /\ q.verificationNotes = notes
    /\ q.verifiedBy = admin

\* C9: verifyPartner, single and bulk, succeeds only on a partner in
\* pending_verification with no pending or rejected document; otherwise the
\* profile is unchanged and the call fails; on success the profile is verified
\* and carries the verification date, notes and verifier.
C9_VerifyOnlyWhenEligible ==
    \A admin \in AdminIds, notes \in Notes, t \in Times :
       /\ \A pid \in PartnerIds, emailOk \in BOOLEAN :
             LET p == Profile(pid)
                 r == verifyPartner(p, admin, notes, t, emailOk)
             IN /\ r.code = 200 => Eligible(p) /\ VerifiedBy(r.partner, admin, notes, t)
                /\ ~Eligible(p) => r.partner = p /\ r.code >= 400
       /\ \A b \in BulkBodies, emailFails \in SUBSET Registered :
             b.action = "verify" =>
                LET out == bulkAction(partners, b, admin, notes, t, emailFails)
                IN \A pid \in PartnerIds :
                      /\ (\E i \in DOMAIN out.results :
                             out.results[i] = [partnerId |-> pid, status |-> "verified"])
                         => /\ Eligible(Profile(pid))
                            /\ VerifiedBy(out.partners[pid], admin, notes, t)
                      /\ ~Eligible(Profile(pid)) =>
                            /\ out.partners[pid] = Profile(pid)
                            /\ ~\E i \in DOMAIN out.results :
                                   out.results[i] = [partnerId |-> pid, status |-> "verified"]

\* an admin has verified a partner that had several documents, all approved
C9_Witness ==
    \E pid \in Existing :
       /\ VerifiedBy(Profile(pid), Profile(pid).verifiedBy, "note", Profile(pid).verificationDate)
       /\ Profile(pid).verifiedBy \in AdminIds
       /\ Len(Profile(pid).documents) = MaxDocs
       /\ EveryDoc(Profile(pid), "approved")

\* C10: rejectPartner, rejectDocument and bulk reject without a reason answer
\* 400 whatever the partner id and document id are, and change no profile.
C10_RejectNeedsReason ==
    \A admin \in AdminIds, notes \in Notes, t \in Times :
       /\ \A pid \in PartnerIds :
             /\ \A emailOk \in BOOLEAN :
                   rejectPartner(Profile(pid), admin, NoReason, notes, t, emailOk)
                      = Reply(Profile(pid), 400)
             /\ \A did \in DocIds :
                   rejectDocument(Profile(pid), admin, did, NoReason, notes, t)
                      = Reply(Profile(pid), 400)
       /\ \A b \in BulkBodies, emailFails \in SUBSET Registered :
             (b.action = "reject" /\ b.reason = NoReason) =>
                bulkAction(partners, b, admin, notes, t, emailFails)
                   = [partners |-> partners, code |-> 400, results |-> <<>>]

\* a partner awaits review with a pending document: a rejection of the partner
\* or of the document that carried a reason would be stored
C10_Witness ==
    \E pid \in Existing :
       /\ Profile(pid).onboardingStatus = "pending_verification"
       /\ SomeDoc(Profile(pid), "pending")
       /\ rejectPartner(Profile(pid), "admin1", "incomplete papers", "note", 1, TRUE).code = 200

\* the stamps of a successful rejection
RejectedBy(q, admin, reason, notes, t) ==
    /\ q.onboardingStatus = "rejected"
    /\ q.verified = FALSE
    /\ q.rejectionReason = reason
    /\ q.rejectionDate = t
    /\ q.rejectedBy = admin

\* C11: rejectPartner with a reason answers 200 only for a partner in
\* pending_verification, and then the stored profile is rejected, not verified,
\* and carries the reason, the date and the rejecting admin; for a partner that
\* is incomplete, verified or rejected it answers an error and the profile
\* stays as it was.
C11_RejectOnlyFromPendingVerification ==
    \A pid \in PartnerIds, admin \in AdminIds, notes \in Notes, t \in Times,
       emailOk \in BOOLEAN, reason \in Reasons \ {NoReason} :
       LET p == Profile(pid)
           r == rejectPartner(p, admin, reason, notes, t, emailOk)
       IN /\ r.code = 200 =>
                /\ p.exists
                /\ p.onboardingStatus = "pending_verification"
                /\ RejectedBy(r.partner, admin, reason, notes, t)
          /\ (p.exists /\ p.onboardingStatus # "pending_verification") =>
                /\ r.code >= 400
                /\ r.partner = p
          /\ (p.exists /\ p.onboardingStatus = "pending_verification" /\ emailOk) =>
                r.code = 200

\* an admin has rejected a partner with a reason, and the rejected profile is
\* asked to be rejected again
C11_Witness ==
    \E pid \in Existing :
       /\ RejectedBy(Profile(pid), Profile(pid).rejectedBy, "incomplete papers",
                     "note", Profile(pid).rejectionDate)
       /\ Profile(pid).rejectedBy \in AdminIds
       /\ Profile(pid).rejectionDate \in Times
       /\ rejectPartner(Profile(pid), "admin1", "incomplete papers", "note", 1, TRUE).code = 400

\* the entries of a bulk result list that name the partner id
EntriesFor(results, pid) == {i \in DOMAIN results : results[i].partnerId = pid}

BulkTags == {"verified", "rejected", "skipped", "error"}

\* C12: a well-formed bulk request over a non-empty id list is answered 200
\* with exactly one tagged result entry for every requested id, also for an id
\* with no partner or a partner outside pending_verification; for verify an
\* eligible partner is tagged verified and one with an unapproved document
\* skipped.
C12_BulkResultPerRequestedId ==
    \A admin \in AdminIds, notes \in Notes, t \in Times, b \in BulkBodies :
       ( /\ b.action \in {"verify", "reject"}
         /\ b.hasIds
         /\ b.partnerIds # <<>>
         /\ ~(b.action = "reject" /\ b.reason = NoReason) ) =>
          LET out == bulkAction(partners, b, admin, notes, t, {})
          IN /\ out.code = 200
             /\ \A pid \in SeqToSet(b.partnerIds) :
                   /\ Cardinality(EntriesFor(out.results, pid)) = 1
                   /\ \A i \in EntriesFor(out.results, pid) :
                         /\ out.results[i].status \in BulkTags
                         /\ (b.action = "verify" /\ Eligible(Profile(pid)))
                               => out.results[i].status = "verified"
                         /\ ( /\ b.action = "verify"
                              /\ Profile(pid).exists
                              /\ Profile(pid).onboardingStatus = "pending_verification"
                              /\ SomeDoc(Profile(pid), "pending") )
                               => out.results[i].status = "skipped"

\* the single-partner route that a bulk action stands for
SingleItem(p, b, admin, notes, t, emailOk) ==
    IF b.action = "verify"
      THEN verifyPartner(p, admin, notes, t, emailOk)
      ELSE rejectPartner(p, admin, b.reason, notes, t, emailOk)

MayManagePartners(caller) == requireAdminPermission(caller, "managePartners") = 0

\* C14: a step of the admin verification operations (approveDocument,
\* rejectDocument, verifyPartner, rejectPartner, bulkAction) changes a partner
\* profile only when its caller has the admin role and an active Admin record
\* with the managePartners capability.
C14_AdminChangesNeedCapability ==
    [][\A caller \in Callers :
          ~MayManagePartners(caller) =>
             \A pid \in PartnerIds, notes \in Notes :
                /\ ~AdminVerifyPartner(caller, pid, notes, 1, TRUE)
                   \/ partners' = partners
                /\ ~AdminRejectPartner(caller, pid, "incomplete papers", notes, 1, TRUE)
                   \/ partners' = partners
                /\ \A did \in DocIds :
                      /\ ~AdminApproveDocument(caller, pid, did, notes, 1)
                         \/ partners' = partners
                      /\ ~AdminRejectDocument(caller, pid, did, "incomplete papers", notes, 1)
                         \/ partners' = partners
                /\ \A b \in BulkBodies :
                      ~AdminBulkAction(caller, b, notes, 1, {}) \/ partners' = partners]_vars

\* the status the recomputation rule derives from progress and documents
DerivedStatus(p) == updateOnboardingStatus(p).onboardingStatus

\* a partner operation that changes completeness or documents: basic info,
\* add, update or remove service, locations, portfolio, document upload
ProfileMutation(pid) ==
    \/ \E b \in BasicInfoBodies : SubmitBasicInfo(pid, b)
    \/ \E b \in ServiceBodies, ev \in BOOLEAN : AddService(pid, b, ev)
    \/ \E sid \in ServiceIds, b \in ServiceBodies, ev \in BOOLEAN : UpdateService(pid, sid, b, ev)
    \/ \E sid \in ServiceIds, ev \in BOOLEAN : RemoveService(pid, sid, ev)
    \/ \E b \in LocationBodies : SubmitLocations(pid, b)
    \/ \E urls \in PortfolioBodies, ev \in BOOLEAN : AddPortfolio(pid, urls, ev)
    \/ \E url \in ImageUrls : RemovePortfolio(pid, url)
    \/ \E docs \in DocumentBodies, ev \in BOOLEAN : SubmitDocuments(pid, docs, ev)
    \/ \E files \in FileUploads, ev \in BOOLEAN : UploadDocuments(pid, files, ev)

\* C15: after every partner operation that changed the profile (basic info,
\* services, locations, portfolio, documents through either route), the stored
\* onboardingStatus equals the status the recomputation rule derives from the
\* stored progress and documents.
C15_NoStaleStatus ==
    [][\A pid \in PartnerIds :
          (ProfileMutation(pid) /\ partners'[pid] # partners[pid]) =>
             partners'[pid].onboardingStatus = DerivedStatus(partners'[pid])]_vars

\* C16: once a partner's onboardingStatus is verified, no partner operation and
\* no admin operation changes it to another status.
C16_VerifiedIsTerminal ==
    [][\A pid \in PartnerIds :
          (partners[pid].exists /\ partners[pid].onboardingStatus = "verified") =>
             partners'[pid].onboardingStatus = "verified"]_vars

\* C17: when the email send fails after the transition was saved, verifyPartner
\* and rejectPartner still answer 200, a bulk item is still tagged verified or
\* rejected, and the stored profile is the verified or rejected one.
C17_EmailFailureNotSurfaced ==
    \A admin \in AdminIds, notes \in Notes, t \in Times, pid \in Existing :
       LET p == Profile(pid)
       IN /\ Eligible(p) =>
                /\ verifyPartner(p, admin, notes, t, FALSE)
                      = Reply(MarkVerified(p, admin, notes, t), 200)
                /\ LET b == [action |-> "verify", hasIds |-> TRUE,
                             partnerIds |-> <<pid>>, reason |-> NoReason]
                       out == bulkAction(partners, b, admin, notes, t, {pid})
                   IN /\ out.partners[pid] = MarkVerified(p, admin, notes, t)
                      /\ out.results = << [partnerId |-> pid, status |-> "verified"] >>
          /\ p.onboardingStatus = "pending_verification" =>
                \A reason \in Reasons \ {NoReason} :
                   /\ rejectPartner(p, admin, reason, notes, t, FALSE)
                         = Reply(MarkRejected(p, admin, reason, notes, t), 200)
                   /\ LET b == [action |-> "reject", hasIds |-> TRUE,
                                partnerIds |-> <<pid>>, reason |-> reason]
                          out == bulkAction(partners, b, admin, notes, t, {pid})
                      IN /\ out.partners[pid] = MarkRejected(p, admin, reason, notes, t)
                         /\ out.results = << [partnerId |-> pid, status |-> "rejected"] >>

\* C19: notify and notifyAdmins never throw, and whatever callbacks throw,
\* every callback registered for the account (for notifyAdmins: for any
\* account) that does not throw receives the notification exactly once, and
\* no other callback receives anything.
C19_ThrowingListenerIsIsolated ==
    \A n \in NotificationTypes, behave \in Behaviours :
       /\ \A u \in Accounts :
             LET r == notify(Service, u, n, behave)
             IN /\ ~r.thrown
                /\ \A cb \in Callbacks :
                      r.inbox[cb] =
                         IF cb \in SeqToSet(subscribers[u]) /\ behave[cb] = "write"
                           THEN Append(inbox[cb], n)
                           ELSE inbox[cb]
       /\ LET r == notifyAdmins(Service, n, behave)
          IN /\ ~r.thrown
             /\ \A cb \in Callbacks :
                   r.inbox[cb] =
                      IF Subscribed(cb) /\ behave[cb] = "write"
                        THEN Append(inbox[cb], n)
                        ELSE inbox[cb]

\* two callbacks are registered for one account, and the one registered later
\* holds a notification the earlier one lacks: the earlier one threw while the
\* notification was delivered
C19_Witness ==
    \E u \in Accounts :
       /\ Len(subscribers[u]) >= 2
       /\ inbox[subscribers[u][1]] = <<>>
       /\ inbox[subscribers[u][2]] # <<>>

\* every callback registered for the partner's account has received the
\* notification in this step
DeliveredToPartner(pid, n) ==
    \A cb \in SeqToSet(subscribers[AccountOf(pid)]) : inbox'[cb] = Append(inbox[cb], n)

\* C18: a step in which an admin verifies or rejects a partner delivers a
\* partner_verification_status notification to every callback registered for
\* that partner's account, and a step in which an admin approves or rejects a
\* document delivers a document_status_updated notification to them.
C18_ReviewNotifiesPartner ==
    [][\A pid \in Existing, admin \in AdminIds, notes \in Notes, t \in Times :
          LET p == partners[pid]
          IN /\ ( /\ verifyPartner(p, admin, notes, t, TRUE).code = 200
                  /\ VerifyPartner(admin, pid, notes, t, TRUE) )
                   => DeliveredToPartner(pid, "partner_verification_status")
             /\ \A reason \in Reasons :
                   ( /\ rejectPartner(p, admin, reason, notes, t, TRUE).code = 200
                     /\ RejectPartner(admin, pid, reason, notes, t, TRUE) )
                      => DeliveredToPartner(pid, "partner_verification_status")
             /\ \A did \in DocIds :
                   /\ ( /\ approveDocument(p, admin, did, notes, t).code = 200
                        /\ ApproveDocument(admin, pid, did, notes, t) )
                         => DeliveredToPartner(pid, "document_status_updated")
                   /\ \A reason \in Reasons :
                         ( /\ rejectDocument(p, admin, did, reason, notes, t).code = 200
                           /\ RejectDocument(admin, pid, did, reason, notes, t) )
                            => DeliveredToPartner(pid, "document_status_updated")]_vars

\* the sum of the five weighted completeness flags
ProgressByFlags(p) ==
      (IF p.companyName # "" /\ p.partnerType # "" THEN 20 ELSE 0)
    + (IF p.specializations # <<>> THEN 15 ELSE 0)
    + (IF p.services # <<>> THEN 25 ELSE 0)
    + (IF p.partnerLocations # <<>> THEN 20 ELSE 0)
    + (IF p.documents # <<>> THEN 20 ELSE 0)

DocumentStatuses == {"pending", "approved", "rejected"}

\* C20: for every stored profile, onboardingProgress lies in 0..100 and equals
\* 20 for company name and partner type, 15 for specializations, 25 for
\* services, 20 for locations and 20 for documents, each counted when present;
\* it stays the same when step, status, verified flag, portfolio or the review
\* state of the documents are replaced by any other values.
C20_ProgressIsSumOfFlags ==
    \A pid \in Existing :
       LET p == Profile(pid)
       IN /\ onboardingProgress(p) \in 0..100
          /\ onboardingProgress(p) = ProgressByFlags(p)
          /\ \A step \in 1..5, status \in Statuses, flag \in BOOLEAN,
                st \in DocumentStatuses :
                onboardingProgress(
                   [p EXCEPT !.onboardingStep = step,
                             !.onboardingStatus = status,
                             !.verified = flag,
                             !.portfolio = <<>>,
                             !.documents = [i \in DOMAIN @ |-> [@[i] EXCEPT !.status = st]]])
                   = onboardingProgress(p)

\* a profile with all five parts present and a portfolio, and so progress 100
C20_Witness ==
    \E pid \in Existing :
       /\ onboardingProgress(Profile(pid)) = 100
       /\ Profile(pid).portfolio # <<>>
       /\ Profile(pid).documents # <<>>
       /\ Profile(pid).onboardingStatus = "pending_verification"

\* C21: from every reachable profile, submitting a basic-info body and then
\* submitting the identical body again is answered the same way and leaves
\* onboardingProgress as the first submission left it.
C21_BasicInfoIdempotentOnProgress ==
    \A pid \in PartnerIds, b \in BasicInfoBodies :
       LET once == basicInfo(Profile(pid), b)
           twice == basicInfo(once.partner, b)
       IN /\ twice.code = once.code
          /\ once.partner.exists =>
                onboardingProgress(twice.partner) = onboardingProgress(once.partner)

\* a profile that holds the basic info of an accepted submission next to
\* services and documents, so that a second identical submission meets a
\* progress above the basic-info share
C21_Witness ==
    \E pid \in Existing, b \in BasicInfoBodies :
       /\ basicInfo(Profile(pid), b).code = 200
       /\ Profile(pid).companyName = b.companyName
       /\ Profile(pid).specializations = b.specializations
       /\ Profile(pid).services # <<>>
       /\ Profile(pid).documents # <<>>
       /\ onboardingProgress(Profile(pid)) = 80

\* C22: a step that takes a partner from rejected to pending_verification is a
\* status recomputation, not a complete-onboarding call, and it leaves the
\* partner with progress 100 and without any rejected document.
C22_RejectedLeavesOnlyByRecompute ==
    [][\A pid \in PartnerIds :
          ( /\ partners[pid].exists
            /\ partners[pid].onboardingStatus = "rejected"
            /\ partners'[pid].onboardingStatus = "pending_verification" )
          => /\ ~SomeDoc(partners'[pid], "rejected")
             /\ onboardingProgress(partners'[pid]) = 100
             /\ ~\E ev \in BOOLEAN : CompleteOnboarding(pid, ev)]_vars

\* the service after unsubscribe(u, cb)
After_unsubscribe(u, cb) == [Service EXCEPT !.subscribers = unsubscribe(subscribers, u, cb)]

\* C23: with callbacks that return normally, notify(u, n) hands n exactly once
\* to every callback registered for u and to no callback of another account;
\* notifyAdmins(n) hands n exactly once to every callback of every account;
\* and a callback removed by unsubscribe before the call receives nothing
\* while the remaining ones still do.
C23_NotifyReachesExactlyTheRegistered ==
    \A n \in NotificationTypes :
       /\ \A u \in Accounts :
             /\ \A cb \in Callbacks :
                   notify(Service, u, n, AllWrite).inbox[cb] =
                      IF cb \in SeqToSet(subscribers[u])
                        THEN Append(inbox[cb], n) ELSE inbox[cb]
             /\ \A gone \in SeqToSet(subscribers[u]), cb \in Callbacks :
                   notify(After_unsubscribe(u, gone), u, n, AllWrite).inbox[cb] =
                      IF cb \in SeqToSet(subscribers[u]) /\ cb # gone
                        THEN Append(inbox[cb], n) ELSE inbox[cb]
       /\ \A cb \in Callbacks :
             notifyAdmins(Service, n, AllWrite).inbox[cb] =
                IF Subscribed(cb) THEN Append(inbox[cb], n) ELSE inbox[cb]

\* callbacks are registered for two accounts, and a notification sent to one
\* account sits in the inbox of its callback and not in the other's
C23_Witness ==
    \E u, v \in Accounts :
       /\ u # v
       /\ subscribers[u] # <<>>
       /\ subscribers[v] # <<>>
       /\ inbox[subscribers[u][1]] = <<"partner_verification_status">>
       /\ inbox[subscribers[v][1]] = <<>>


\* C24: a partner-facing submission that is answered with an error (a
\* malformed payload, an empty portfolio or document list, a document entry
\* without docName or fileUrl, no profile for the caller, /complete with
\* progress below 100 or without documents) leaves the stored profile as it
\* was; of a document batch with one bad entry nothing is stored.
C24_RejectedSubmissionChangesNothing ==
    \A pid \in PartnerIds :
       LET p == Profile(pid) IN
       /\ \A b \in BasicInfoBodies :
             basicInfo(p, b).code >= 400 => basicInfo(p, b).partner = p
       /\ \A b \in ServiceBodies, ev \in BOOLEAN :
             /\ postService(p, b, ev).code >= 400 => postService(p, b, ev).partner = p
             /\ \A sid \in ServiceIds :
                   patchService(p, sid, b, ev).code >= 400
                      => patchService(p, sid, b, ev).partner = p
       /\ \A sid \in ServiceIds, ev \in BOOLEAN :
             deleteService(p, sid, ev).code >= 400 => deleteService(p, sid, ev).partner = p
       /\ \A b \in LocationBodies :
             postLocations(p, b).code >= 400 => postLocations(p, b).partner = p
       /\ \A urls \in PortfolioBodies, ev \in BOOLEAN :
             postPortfolio(p, urls, ev).code >= 400 => postPortfolio(p, urls, ev).partner = p
       /\ \A url \in ImageUrls :
             deletePortfolio(p, url).code >= 400 => deletePortfolio(p, url).partner = p
       /\ \A docs \in DocumentBodies, ev \in BOOLEAN :
             postDocuments(p, docs, ev).code >= 400 => postDocuments(p, docs, ev).partner = p
       /\ \A ev \in BOOLEAN :
             postComplete(p, ev).code >= 400 => postComplete(p, ev).partner = p
       /\ \A files \in FileUploads, ev \in BOOLEAN :
             uploadDocuments(p, files, ev).code >= 400
                => uploadDocuments(p, files, ev).partner = p

\* a profile that holds a document and is not yet complete, for which a batch
\* with one bad entry and a /complete request are both refused
C24_Witness ==
    \E pid \in PartnerIds :
       /\ Profile(pid).exists
       /\ Len(Profile(pid).documents) > 0
       /\ postDocuments(Profile(pid), <<GoodDoc, BadDoc>>, TRUE).code = 400
       /\ postComplete(Profile(pid), TRUE).code = 400


\* C25: in every reachable state a partner's verified flag is true exactly
\* when its onboardingStatus is verified.
C25_VerifiedFlagTracksStatus ==
    \A pid \in Existing :
       Profile(pid).verified <=> (Profile(pid).onboardingStatus = "verified")


\* q differs from p at most in the review fields of the document did
OnlyDocumentTouched(p, q, did) ==
    /\ q = [p EXCEPT !.documents = q.documents]
    /\ Len(q.documents) = Len(p.documents)
    /\ \A i \in DOMAIN p.documents :
          IF p.documents[i].id = did
            THEN /\ q.documents[i].id = did
                 /\ q.documents[i].docName = p.documents[i].docName
            ELSE q.documents[i] = p.documents[i]

\* C26: approveDocument and rejectDocument change only the targeted document:
\* every other document, onboardingStatus, the verified flag, onboardingStep
\* and the profile content stay as they were, so approving the last pending
\* document leaves the partner in pending_verification.
C26_DocumentReviewTouchesOnlyTheDocument ==
    \A pid \in Existing, admin \in AdminIds, did \in DocIds, notes \in Notes, t \in Times :
       LET p == Profile(pid)
           a == approveDocument(p, admin, did, notes, t)
       IN /\ OnlyDocumentTouched(p, a.partner, did)
          /\ \A reason \in Reasons :
                OnlyDocumentTouched(p, rejectDocument(p, admin, did, reason, notes, t).partner, did)
          /\ (p.onboardingStatus = "pending_verification" /\ a.code = 200)
                => a.partner.onboardingStatus = "pending_verification"

\* a partner in pending_verification whose last pending document has been
\* approved by an admin
C26_Witness ==
    \E pid \in Existing :
       /\ Profile(pid).onboardingStatus = "pending_verification"
       /\ Len(Profile(pid).documents) > 0
       /\ EveryDoc(Profile(pid), "approved")
       /\ \E i \in DOMAIN Profile(pid).documents :
             Profile(pid).documents[i].reviewedBy \in AdminIds


C27_VerifyAndRejectExcludeEachOther ==
    /\ \A r1, r2 \in Requests :
          ~ /\ inFlight[r1].kind = "verify" /\ inFlight[r2].kind = "reject"
            /\ inFlight[r1].pid = inFlight[r2].pid
            /\ inFlight[r1].pc = "done" /\ inFlight[r1].code = 200
            /\ inFlight[r2].pc = "done" /\ inFlight[r2].code = 200
    /\ \A pid \in Existing :
          ~ /\ Profile(pid).verificationDate # NoDate
            /\ Profile(pid).rejectionDate # NoDate


SuperAdmins == {u \in Users : adminRecords[u].exists /\ adminRecords[u].role = "super_admin"}

\* C29: after any sequence of create-super-admin, create-admin,
\* update-permissions and deactivate-admin requests at most one Admin record
\* has the role super_admin, and no such request demotes or deactivates a
\* super_admin record.
C29_SingleUntouchableSuperAdmin ==
    [][/\ Cardinality({u \in Users : adminRecords'[u].exists
                                      /\ adminRecords'[u].role = "super_admin"}) <= 1
       /\ \A u \in SuperAdmins :
             /\ adminRecords'[u].role = "super_admin"
             /\ adminRecords'[u].isActive = adminRecords[u].isActive]_vars


\* the lockout of the address has run out: five or more failures are
\* counted and the last one is at least 15 minutes old
LockoutExpired(ip) ==
    /\ failedAttempts[ip].present
    /\ failedAttempts[ip].count >= 5
    /\ now - failedAttempts[ip].lastAttempt >= LockWindow

\* C30: a login is answered 429 only while the address has at least five
\* failed attempts of which the last is less than 15 minutes old; a
\* successful login resets the count; and once a lockout has expired a
\* single failed attempt does not lock the address again, whether or not
\* the hourly cleanup has run.
C30_LockoutNeedsFiveFailures ==
    \A ip \in Ips :
       /\ \A found \in BOOLEAN :
             login(failedAttempts, ip, found, now).code = 429
                => /\ failedAttempts[ip].count >= 5
                   /\ now - failedAttempts[ip].lastAttempt < LockWindow
       /\ login(failedAttempts, ip, TRUE, now).code = 200
             => login(failedAttempts, ip, TRUE, now).failedAttempts[ip].count = 0
       /\ LockoutExpired(ip) =>
             LET failed == login(failedAttempts, ip, FALSE, now)
             IN /\ failed.code = 404
                /\ login(failed.failedAttempts, ip, TRUE, now).code # 429

====
